---- MODULE Spec2Model ----
(***************************************************************************)
(* A model of the string interner of src/src/lib.rs (StringInternal).      *)
(*                                                                         *)
(* Memory is modelled explicitly, because the interner keeps `&'a str`     *)
(* references that the borrow checker does not track (the transmute of     *)
(* lib.rs:103-104): a String is a heap block (ptr, bytes, cap), a `&str`   *)
(* is a range (ptr, start, end) into a block, and reading a range whose    *)
(* block is no longer owned by the interner (it was freed by a growing     *)
(* push_str) is undefined behaviour: it may yield any bytes.               *)
(*                                                                         *)
(* Every operation is an operator that returns the SET of its possible     *)
(* outcomes; the set has one element unless undefined behaviour is         *)
(* involved.                                                               *)
(*                                                                         *)
(* std is modelled by its documented behaviour with the exact-capacity     *)
(* allocation the standard library performs (String::with_capacity(n)      *)
(* has capacity n).  Allocation failure and a requested capacity above     *)
(* isize::MAX are outside the model.                                       *)
(***************************************************************************)
EXTENDS Integers, Sequences, FiniteSets, TLC

\* ------------------------------------------------------------------ bounds
\* Largest number of distinct texts offered to one interner.
MaxStrings == 2
\* Largest `capacity` passed to with_capacity / with_capacity_for_internals.
MaxCapacity == 2
\* Largest `capacity_internal_strings` passed to with_capacity_for_internals.
MaxInternals == 0

\* ------------------------------------------------------- program constants
\* String::with_capacity(100) in new()
DefaultCapacity == 100
\* Vec::with_capacity(4096) in new() and with_capacity()
DefaultInternals == 4096

\* The texts callers intern: byte strings ('a' = 97, 'b' = 98) of length
\* 0 to 3, two of each length 1 and 2 so that equal lengths with different
\* content occur.
Texts == {<<>>, <<97>>, <<98>>, <<97, 98>>, <<98, 97>>, <<97, 97, 98>>}

VARIABLES
    db,      \* db[i]: the StringInternal instance i: its four fields, and the
             \* capacity of the Vec `interned` as interned_cap
    heap,    \* heap[i]: number of heap blocks allocated so far for instance i
    last,    \* last[i]: the last call made on instance i, and what it returned
    seen,    \* seen[i]: the distinct texts passed to add on i, in first-call order
    issued   \* issued[i]: issued[i][k] is what add returned for seen[i][k]

vars == <<db, heap, last, seen, issued>>

Range(s) == {s[k] : k \in DOMAIN s}
Max(a, b) == IF a >= b THEN a ELSE b

\* --------------------------------------------------------------------- std
\* The pointer of a String that owns no heap block (capacity 0).
NoPtr == <<0, 0>>

RECURSIVE PowerOfTwoFrom(_, _)
PowerOfTwoFrom(p, n) == IF p >= n THEN p ELSE PowerOfTwoFrom(2 * p, n)

\* usize::next_power_of_two: the smallest power of two >= n (1 for n = 0).
next_power_of_two(n) == PowerOfTwoFrom(1, n)

\* String::with_capacity: an empty String; no allocation when capacity = 0.
StringWithCapacity(capacity, ptr) ==
    [ptr   |-> IF capacity = 0 THEN NoPtr ELSE ptr,
     bytes |-> <<>>,
     cap   |-> capacity]

\* String::push_str.  Within capacity the bytes are written in place.
\* Otherwise the block grows (amortised: at least double, at least 8 bytes)
\* and the allocator either extends it in place or moves it to `ptr`,
\* freeing the old block.
push_str(buffer, string, ptr) ==
    IF Len(buffer.bytes) + Len(string) <= buffer.cap
    THEN {[buffer EXCEPT !.bytes = @ \o string]}
    ELSE {[ptr   |-> p,
           bytes |-> buffer.bytes \o string,
           cap   |-> Max(Max(2 * buffer.cap, Len(buffer.bytes) + Len(string)), 8)]
          : p \in {ptr} \cup ({buffer.ptr} \ {NoPtr})}

\* Vec::push on `interned`: the capacity of the Vec after pushing onto a Vec
\* of length len (amortised growth, at least 4 elements).  Growing a Vec
\* moves its elements, which are plain references; it frees no String.
VecCapAfterPush(len, cap) ==
    IF len < cap THEN cap ELSE Max(Max(2 * cap, len + 1), 4)

\* ------------------------------------------------------------ constructors
new(i) ==
    [strings      |-> {},
     buffer       |-> StringWithCapacity(DefaultCapacity, <<i, 1>>),
     buffers      |-> <<>>,
     interned     |-> <<>>,
     interned_cap |-> DefaultInternals]

with_capacity(capacity, i) ==
    [strings      |-> {},
     buffer       |-> StringWithCapacity(capacity, <<i, 1>>),
     buffers      |-> <<>>,
     interned     |-> <<>>,
     interned_cap |-> DefaultInternals]

with_capacity_for_internals(capacity, capacity_internal_strings, i) ==
    [strings      |-> {},
     buffer       |-> StringWithCapacity(capacity, <<i, 1>>),
     buffers      |-> <<>>,
     interned     |-> <<>>,
     interned_cap |-> capacity_internal_strings]

\* ------------------------------------------------------------ references
\* The Strings an interner owns: their heap blocks are alive.
Owned(self) == {self.buffer} \cup Range(self.buffers)

\* Reading the &str `ref`: the bytes of its range when the range lies in
\* the written part of a block the interner owns; any bytes of that length
\* when it dangles.  An empty &str reads no memory.
Deref(self, ref) ==
    IF ref.start = ref.end THEN {<<>>}
    ELSE LET blocks == {b \in Owned(self) :
                           b.ptr = ref.ptr /\ ref.end <= Len(b.bytes)}
         IN  IF blocks # {}
             THEN {SubSeq(b.bytes, ref.start + 1, ref.end) : b \in blocks}
             ELSE {t \in Texts : Len(t) = ref.end - ref.start}

\* HashMap::get on `strings` (keys are &str, compared by content).
HashMapGet(self, string) ==
    {[found |-> TRUE, val |-> e.val] :
        e \in {x \in self.strings : string \in Deref(self, x.key)}}
    \cup
    (IF \E e \in self.strings : Deref(self, e.key) = {string}
     THEN {}
     ELSE {[found |-> FALSE, val |-> 0]})

\* A slip: an empty key is taken for "nothing to store".
HashMapInsertNonEmpty(self, key, val) ==
    IF key.start = key.end
    THEN self.strings
    ELSE self.strings \cup {[key |-> key, val |-> val]}

\* A slip: the new entry is never stored in the dedup index.
HashMapInsertDropped(self, key, val) == self.strings

\* HashMap::insert on `strings`: a new entry, or the value of the entry
\* with an equal key replaced.
HashMapInsert(self, key, val) ==
    LET same == {e \in self.strings : Deref(self, e.key) = Deref(self, key)}
    IN  IF same = {}
        THEN self.strings \cup {[key |-> key, val |-> val]}
        ELSE (self.strings \ same) \cup {[key |-> e.key, val |-> val] : e \in same}

\* ----------------------------------------------------------------- intern
\* A slip: a string that fits exactly is appended (> instead of >=).
BufferFullStrict(buffer, len) == len + Len(buffer.bytes) > buffer.cap

\* A slip: the test forgets the length of the string to be added.
BufferFullIgnoringLen(buffer, len) == Len(buffer.bytes) >= buffer.cap

\* lib.rs:92  the active buffer cannot take `len` more bytes
BufferFull(buffer, len) == len + Len(buffer.bytes) >= buffer.cap

\* A slip: the new buffer is not sized for the string that is to be added.
NewBufferCapacityNoLen(buffer, len) == next_power_of_two(buffer.cap)

\* A slip: the old capacity is not rounded up to a power of two.
NewBufferCapacityNoRounding(buffer, len) == len + buffer.cap

\* lib.rs:93-95  the capacity of the buffer that replaces a full one
NewBufferCapacity(buffer, len) == len + next_power_of_two(buffer.cap)

\* A slip: the full buffer is dropped instead of being kept in `buffers`.
RetireDropping(self, len, ptr) ==
    [self EXCEPT !.buffer = StringWithCapacity(NewBufferCapacity(self.buffer, len), ptr)]

\* lib.rs:92-97  retire the full buffer into `buffers`, start a new one
Retire(self, len, ptr) ==
    [self EXCEPT !.buffer  = StringWithCapacity(NewBufferCapacity(self.buffer, len), ptr),
                 !.buffers = Append(@, self.buffer)]

\* lib.rs:92-97  the instance when intern reaches the append of line 100
AfterRetirement(self, len, ptr) ==
    IF BufferFull(self.buffer, len) THEN Retire(self, len, ptr) ELSE self

\* A slip: old_len is read before the retirement step.
OldLenBeforeRetire(self, s1) == Len(self.buffer.bytes)

\* lib.rs:98  old_len is read from the buffer as it is after the retirement
\* step (s1), not as it was when intern was entered (self).
OldLen(self, s1) == Len(s1.buffer.bytes)

\* A slip: the slice starts at the beginning of the buffer.
SliceFromStart(buffer, old_len, new_len) ==
    [ptr |-> buffer.ptr, start |-> 0, end |-> new_len]

\* lib.rs:104  &self.buffer[old_len..new_len], with its lifetime extended
Slice(buffer, old_len, new_len) ==
    [ptr |-> buffer.ptr, start |-> old_len, end |-> new_len]

\* lib.rs:104  the range check of the slice index (a panic when it fails)
SliceInRange(buffer, old_len, new_len) ==
    old_len <= new_len /\ new_len <= Len(buffer.bytes)

\* A slip: the id is the table's new length.
NewIdOffByOne(interned) == Len(interned)

\* lib.rs:106  the id of the string just pushed onto `interned`
NewId(interned) == Len(interned) - 1

\* StringInternal::intern.  An outcome is
\*   [ok, db, ref, id, heap]: ok = FALSE when the call panicked (the slice
\*   index of line 104 out of range), db the instance afterwards, ref the
\*   &'a str returned, id the StringId returned, heap the blocks allocated.
intern(self, string, i, np) ==
    LET len     == Len(string)
        full    == BufferFull(self.buffer, len)
        s1      == AfterRetirement(self, len, <<i, np + 1>>)
        np1     == IF full THEN np + 1 ELSE np
        old_len == OldLen(self, s1)
        new_len == old_len + Len(string)
        grows   == Len(s1.buffer.bytes) + len > s1.buffer.cap
        np2     == IF grows THEN np1 + 1 ELSE np1
    IN  { LET s2  == [s1 EXCEPT !.buffer = b]
              ref == Slice(b, old_len, new_len)
              inb == SliceInRange(b, old_len, new_len)
              s3  == [s2 EXCEPT !.interned     = Append(@, ref),
                                !.interned_cap = VecCapAfterPush(Len(s2.interned), @)]
          IN  IF inb
              THEN [ok |-> TRUE,  db |-> s3, ref |-> ref,
                    id |-> NewId(s3.interned), heap |-> np2]
              ELSE [ok |-> FALSE, db |-> s2, ref |-> ref,
                    id |-> 0, heap |-> np2]
          : b \in push_str(s1.buffer, string, <<i, np1 + 1>>) }

\* -------------------------------------------------------------------- add
\* A slip: the string is copied into the arena before the lookup, so a hit
\* writes to the arena too.
add_intern_first(self, string, i, np) ==
    UNION {
        {[ok   |-> o.ok,
          db   |-> IF o.ok /\ ~v.found
                   THEN [o.db EXCEPT !.strings = HashMapInsert(o.db, o.ref, o.id)]
                   ELSE o.db,
          id   |-> IF v.found THEN v.val ELSE o.id,
          heap |-> o.heap] : o \in intern(self, string, i, np)}
        : v \in HashMapGet(self, string) }

\* StringInternal::add.  An outcome is [ok, db, id, heap].
add(self, string, i, np) ==
    UNION {
        IF v.found
        THEN {[ok |-> TRUE, db |-> self, id |-> v.val, heap |-> np]}
        ELSE {[ok   |-> o.ok,
               db   |-> IF o.ok
                        THEN [o.db EXCEPT !.strings = HashMapInsert(o.db, o.ref, o.id)]
                        ELSE o.db,
               id   |-> o.id,
               heap |-> o.heap] : o \in intern(self, string, i, np)}
        : v \in HashMapGet(self, string) }

\* -------------------------------------------------------------------- get
Panic == [ok |-> FALSE, val |-> <<>>]

\* lib.rs:80  assert!(string_id.0 <= self.interned.len())
AssertInRange(self, string_id) == string_id <= Len(self.interned)

\* A slip: the table is indexed without the bounds check (get_unchecked);
\* reading past its end yields whatever lies there.
IndexUnchecked(self, string_id) ==
    IF string_id < Len(self.interned)
    THEN {[ok |-> TRUE, val |-> t] : t \in Deref(self, self.interned[string_id + 1])}
    ELSE {[ok |-> TRUE, val |-> t] : t \in Texts}

\* lib.rs:81  self.interned[string_id.0]: Vec indexing is bounds-checked
Index(self, string_id) ==
    IF string_id < Len(self.interned)
    THEN {[ok |-> TRUE, val |-> t] : t \in Deref(self, self.interned[string_id + 1])}
    ELSE {Panic}

\* StringInternal::get.  An outcome is [ok, val]; ok = FALSE is a panic.
get(self, string_id) ==
    IF AssertInRange(self, string_id) THEN Index(self, string_id) ELSE {Panic}

\* ------------------------------------------------------------ the machine
Interners == DOMAIN db

\* Every way to construct instance i.
Constructed(i) ==
    {new(i)}
    \cup {with_capacity(c, i) : c \in 0..MaxCapacity}
    \cup {with_capacity_for_internals(c, n, i) : c \in 0..MaxCapacity, n \in 0..MaxInternals}

NoCall == [op |-> "none", text |-> <<>>, id |-> 0, from |-> 0,
           ok |-> TRUE, rid |-> 0, rtext |-> <<>>]

InitOf(I) ==
    /\ db \in [I -> UNION {Constructed(i) : i \in I}]
    /\ \A i \in I : db[i] \in Constructed(i)
    /\ heap = [i \in I |-> 1]
    /\ last = [i \in I |-> NoCall]
    /\ seen = [i \in I |-> <<>>]
    /\ issued = [i \in I |-> <<>>]

\* The caller calls add(string) on every instance of J.
Add(J, string) ==
    /\ \A i \in J : string \in Range(seen[i]) \/ Len(seen[i]) < MaxStrings
    /\ \E o \in [J -> UNION {add(db[i], string, i, heap[i]) : i \in J}] :
        /\ \A i \in J : o[i] \in add(db[i], string, i, heap[i])
        /\ db' = [i \in Interners |-> IF i \in J THEN o[i].db ELSE db[i]]
        /\ heap' = [i \in Interners |-> IF i \in J THEN o[i].heap ELSE heap[i]]
        /\ last' = [i \in Interners |->
                      IF i \in J
                      THEN [op |-> "add", text |-> string, id |-> 0, from |-> 0,
                            ok |-> o[i].ok, rid |-> o[i].id, rtext |-> <<>>]
                      ELSE last[i]]
        /\ seen' = [i \in Interners |->
                      IF i \in J /\ string \notin Range(seen[i])
                      THEN Append(seen[i], string) ELSE seen[i]]
        /\ issued' = [i \in Interners |->
                      IF i \in J /\ string \notin Range(seen[i])
                      THEN Append(issued[i], o[i].id) ELSE issued[i]]

\* The caller calls get(StringId(id)) on every instance of J.  The id is one
\* that add on instance `from` returned, or (from = 0) an index no add has
\* returned, built directly as the crate's own tests build ids (lib.rs:132).
Get(J, from, id) ==
    /\ \/ /\ from = 0
          /\ id \in 0..(MaxStrings + 1)
          /\ \A i \in Interners : id \notin Range(issued[i])
       \/ from \in Interners /\ id \in Range(issued[from])
    /\ \E o \in [J -> UNION {get(db[i], id) : i \in J}] :
        /\ \A i \in J : o[i] \in get(db[i], id)
        /\ last' = [i \in Interners |->
                      IF i \in J
                      THEN [op |-> "get", text |-> <<>>, id |-> id, from |-> from,
                            ok |-> o[i].ok, rid |-> 0, rtext |-> o[i].val]
                      ELSE last[i]]
    /\ UNCHANGED <<db, heap, seen, issued>>

\* One interner, any sequence of calls.
Init == InitOf({1})

Next ==
    \/ \E i \in Interners, t \in Texts : Add({i}, t)
    \/ \E i \in Interners, from \in {0} \cup Interners, id \in 0..(MaxStrings + 1) :
          Get({i}, from, id)

Spec == Init /\ [][Next]_vars

\* Two interners, constructed in any two different ways, given the same
\* sequence of calls.  Which of the two is called instance 1 does not
\* matter, so instance 1 is the one with the smaller (capacity, internals).
Before(s1, s2) ==
    \/ s1.buffer.cap < s2.buffer.cap
    \/ s1.buffer.cap = s2.buffer.cap /\ s1.interned_cap < s2.interned_cap

InitPair == InitOf({1, 2}) /\ Before(db[1], db[2])

NextPair ==
    \/ \E t \in Texts : Add(Interners, t)
    \/ \E from \in {0} \cup Interners, id \in 0..(MaxStrings + 1) :
          Get(Interners, from, id)

SpecPair == InitPair /\ [][NextPair]_vars

\* Two interners built with new(), each called on its own; an identifier
\* that one of them issued may be passed to get on the other.
InitCross == InitOf({1, 2}) /\ db[1] = new(1) /\ db[2] = new(2)

SpecCross == InitCross /\ [][Next]_vars

\* ================================================================ claims
\* get returned the text t
Returned(t) == [ok |-> TRUE, val |-> t]

\* The position of text t in seen[i]: t is the Position(i, t)-th distinct
\* text (counting from 1) that add was called with on instance i.
Position(i, t) == CHOOSE k \in DOMAIN seen[i] : seen[i][k] = t

\* The arena that holds the first interned text of instance i has been
\* retired since that text was interned.
FirstArenaRetired(i) ==
    /\ Len(db[i].interned) >= 1
    /\ Len(seen[i][1]) > 0
    /\ db[i].interned[1].ptr # db[i].buffer.ptr

\* C1 (uniqueness): every call add(T) returns the identifier that the first
\* call add(T) on that interner returned, whatever was added in between.
Uniqueness ==
    \A i \in Interners :
        last[i].op = "add" =>
            /\ last[i].ok
            /\ last[i].text \in Range(seen[i])
            /\ last[i].rid = issued[i][Position(i, last[i].text)]

\* A repeated add(T) of the first text, after another text was added and
\* T's arena was retired.
UniquenessWitness ==
    /\ last[1].op = "add"
    /\ Len(seen[1]) >= 2
    /\ last[1].text = seen[1][1]
    /\ FirstArenaRetired(1)

\* C2 (round trip): in the state add(T) leaves, get of the identifier that
\* add returned yields exactly T.
RoundTrip ==
    \A i \in Interners :
        last[i].op = "add" =>
            /\ last[i].ok
            /\ get(db[i], last[i].rid) = {Returned(last[i].text)}

\* add(T) of a non-empty T written behind another text in the same arena.
RoundTripWitness ==
    /\ last[1].op = "add"
    /\ Len(last[1].text) > 0
    /\ Len(db[1].interned) >= 2
    /\ db[1].interned[Len(db[1].interned)].start > 0
    /\ get(db[1], last[1].rid) = {Returned(last[1].text)}

\* C3 (density): the k-th distinct text (counting from 0) receives
\* identifier k, and an add of a text seen before returns the identifier
\* of its position and issues none.
Density ==
    \A i \in Interners :
        /\ Len(issued[i]) = Len(seen[i])
        /\ \A k \in DOMAIN issued[i] : issued[i][k] = k - 1
        /\ last[i].op = "add" =>
              /\ last[i].text \in Range(seen[i])
              /\ last[i].rid = Position(i, last[i].text) - 1
        /\ Len(db[i].interned) = Len(seen[i])

\* MaxStrings distinct texts were added, then the first one again.
DensityWitness ==
    /\ Len(seen[1]) = MaxStrings
    /\ last[1].op = "add"
    /\ last[1].text = seen[1][1]
    /\ last[1].rid = 0
    /\ issued[1][MaxStrings] = MaxStrings - 1

\* Every identifier issued so far resolves to the text it was issued for.
IssuedResolve ==
    \A i \in Interners :
        /\ \A k \in DOMAIN issued[i] :
              get(db[i], issued[i][k]) = {Returned(seen[i][k])}
        /\ (last[i].op = "get" /\ last[i].from = i) =>
              /\ last[i].ok
              /\ last[i].rtext = seen[i][CHOOSE k \in DOMAIN issued[i] :
                                              issued[i][k] = last[i].id]

\* A step keeps every slot of the identifier table, every text view it
\* holds (same block, same range) and what the view reads.
TableKept ==
    \A i \in Interners :
        \A k \in DOMAIN db[i].interned :
            /\ k \in DOMAIN db'[i].interned
            /\ db'[i].interned[k] = db[i].interned[k]
            /\ Deref(db'[i], db'[i].interned[k]) = Deref(db[i], db[i].interned[k])

\* C4 (stability): an identifier issued for T resolves to T in every later
\* state, also after adds that retire the arena, and no slot of the
\* identifier table is ever changed, moved or removed.
Stability == []IssuedResolve /\ [][TableKept]_vars

\* get of the first identifier returns its text after that text's arena
\* was retired by a later add.
StabilityWitness ==
    /\ last[1].op = "get"
    /\ last[1].from = 1
    /\ last[1].id = issued[1][1]
    /\ last[1].ok
    /\ last[1].rtext = seen[1][1]
    /\ FirstArenaRetired(1)
    /\ Len(seen[1]) >= 2

\* C5 (invalid identifier): get with an index at or beyond the length of
\* the identifier table panics, the index equal to the length included.
InvalidIdPanics ==
    \A i \in Interners :
        /\ \A id \in Len(db[i].interned)..(MaxStrings + 1) :
              get(db[i], id) = {Panic}
        /\ (last[i].op = "get" /\ last[i].id >= Len(db[i].interned)) =>
              ~last[i].ok

\* get was called with the index equal to the (non-zero) table length.
InvalidIdWitness ==
    /\ last[1].op = "get"
    /\ Len(db[1].interned) >= 1
    /\ last[1].id = Len(db[1].interned)
    /\ ~last[1].ok

\* C6 (cross-instance misuse): get with an identifier that add on ANOTHER
\* instance returned panics, also when its index is within the table.
CrossInstanceFailsFast ==
    \A i \in Interners :
        (last[i].op = "get" /\ last[i].from \notin {0, i}) => ~last[i].ok

\* C7 (empty string): every add("") returns the identifier of the first
\* add(""), and that identifier resolves to the empty text.
EmptyString ==
    \A i \in Interners :
        <<>> \in Range(seen[i]) =>
            LET e == issued[i][Position(i, <<>>)]
            IN  /\ (last[i].op = "add" /\ last[i].text = <<>>) =>
                      last[i].ok /\ last[i].rid = e
                /\ get(db[i], e) = {Returned(<<>>)}
                /\ (last[i].op = "get" /\ last[i].from = i /\ last[i].id = e) =>
                      last[i].ok /\ last[i].rtext = <<>>

\* An interner built with capacity 0: add(""), another add, add("") again.
EmptyStringWitness ==
    /\ last[1].op = "add"
    /\ last[1].text = <<>>
    /\ Len(seen[1]) >= 2
    /\ seen[1][1] = <<>>
    /\ Len(db[1].buffers) >= 1
    /\ db[1].buffers[1].cap = 0
    /\ last[1].rid = issued[1][1]

\* A step that is add(T) on instance i, for a T that add was called with
\* before, leaves instance i as it was.
HitKeeps ==
    \A i \in Interners :
        (last'[i].op = "add" /\ last'[i].text \in Range(seen[i])) =>
            /\ db'[i].buffer = db[i].buffer
            /\ db'[i].buffers = db[i].buffers
            /\ db'[i].interned = db[i].interned
            /\ db'[i].strings = db[i].strings
            /\ heap'[i] = heap[i]

\* C8 (a hit leaves storage untouched): add(T) of an interned T changes
\* neither the active arena, nor the retired arenas, nor the identifier
\* table, nor the dedup index.
HitLeavesStorage == [][HitKeeps]_vars

\* A hit on the first text while it lies in the active arena, behind which
\* another text has been written.
HitWitness ==
    /\ last[1].op = "add"
    /\ Len(seen[1]) >= 2
    /\ last[1].text = seen[1][1]
    /\ Len(seen[1][1]) > 0
    /\ db[1].interned[1].ptr = db[1].buffer.ptr
    /\ db[1].interned[2].ptr = db[1].buffer.ptr
    /\ Len(db[1].buffer.bytes) > Len(seen[1][1])

\* C9 (construction modes are sizing hints): two interners built in
\* different ways and given the same calls return the same identifiers and
\* the same texts (or both panic) at every step.
SameResults ==
    \A i, j \in Interners :
        /\ last[i].op = last[j].op
        /\ last[i].ok = last[j].ok
        /\ last[i].rid = last[j].rid
        /\ last[i].rtext = last[j].rtext
        /\ issued[i] = issued[j]

\* Two interners whose arena layouts differ return the same non-empty text.
SameResultsWitness ==
    /\ Interners = {1, 2}
    /\ Len(db[1].buffers) # Len(db[2].buffers)
    /\ db[1].interned_cap # db[2].interned_cap
    /\ last[1].op = "get"
    /\ last[1].ok
    /\ Len(last[1].rtext) > 0
    /\ last[2].rtext = last[1].rtext

\* C10 (add is total): add returns an identifier for every text in every
\* reachable state; it never panics.
AddTotal ==
    \A i \in Interners :
        /\ last[i].op = "add" => last[i].ok
        /\ \A t \in Texts :
              /\ add(db[i], t, i, heap[i]) # {}
              /\ \A o \in add(db[i], t, i, heap[i]) : o.ok

\* add of a text longer than the capacity of every arena that existed
\* before the call.
AddTotalWitness ==
    /\ last[1].op = "add"
    /\ last[1].ok
    /\ Len(db[1].buffers) >= 2
    /\ \A k \in DOMAIN db[1].buffers : Len(last[1].text) > db[1].buffers[k].cap
    /\ db[1].interned[Len(db[1].interned)].end - db[1].interned[Len(db[1].interned)].start
          = Len(last[1].text)

\* In every reachable state and for every text that is not interned yet,
\* the buffer that intern appends to (the active one, or the one that
\* replaces it) has room for the text.
AppendFits ==
    \A i \in Interners :
        \A t \in Texts \ Range(seen[i]) :
            LET s1 == AfterRetirement(db[i], Len(t), <<i, heap[i] + 1>>)
            IN  Len(s1.buffer.bytes) + Len(t) <= s1.buffer.cap

\* A step either keeps the active arena where it is, with its capacity and
\* what was written to it, or retires it; heap blocks are allocated for
\* new arenas only.
ArenaKept ==
    \A i \in Interners :
        /\ \/ /\ db'[i].buffer.ptr = db[i].buffer.ptr
              /\ db'[i].buffer.cap = db[i].buffer.cap
              /\ Len(db'[i].buffer.bytes) >= Len(db[i].buffer.bytes)
              /\ SubSeq(db'[i].buffer.bytes, 1, Len(db[i].buffer.bytes)) = db[i].buffer.bytes
              /\ db'[i].buffers = db[i].buffers
           \/ /\ db'[i].buffers = Append(db[i].buffers, db[i].buffer)
              /\ db'[i].buffer.ptr # db[i].buffer.ptr
        /\ heap'[i] - heap[i] = Len(db'[i].buffers) - Len(db[i].buffers)
        /\ Len(db'[i].buffer.bytes) <= db'[i].buffer.cap

\* C11 (no reallocation of the active arena): when intern appends a string
\* the active arena has room for it, so an arena keeps its place and its
\* capacity from its creation until it is retired, also for capacity 0.
NoReallocation == []AppendFits /\ [][ArenaKept]_vars

\* An interner built with capacity 0: its first arena was retired by the
\* first add, and the arena that replaced it took that text and a second
\* append behind it.
NoReallocationWitness ==
    /\ last[1].op = "add"
    /\ Len(db[1].buffers) >= 1
    /\ db[1].buffers[1].cap = 0
    /\ Len(db[1].interned) >= 2
    /\ db[1].interned[1].ptr = db[1].buffer.ptr
    /\ db[1].interned[2].ptr = db[1].buffer.ptr
    /\ db[1].interned[2].start > 0
    /\ Len(db[1].buffer.bytes) < db[1].buffer.cap

\* The active arena is none of the retired ones, and no arena is retired
\* twice: the arenas that own a heap block own different blocks.
OneActive ==
    \A i \in Interners :
        /\ \A k \in DOMAIN db[i].buffers :
              db[i].buffers[k].ptr # db[i].buffer.ptr
        /\ \A k, l \in DOMAIN db[i].buffers :
              (k # l /\ db[i].buffers[k].ptr = db[i].buffers[l].ptr) =>
                  db[i].buffers[k].ptr = NoPtr

\* A step leaves every retired arena as it is and where it is in the
\* collection, retires at most one arena, and the arena it retires is the
\* one that was active, with the contents it had; the active arena is
\* replaced only by being retired.
RetiredKept ==
    \A i \in Interners :
        /\ \A k \in DOMAIN db[i].buffers :
              /\ k \in DOMAIN db'[i].buffers
              /\ db'[i].buffers[k] = db[i].buffers[k]
        /\ \/ Len(db'[i].buffers) = Len(db[i].buffers)
           \/ /\ Len(db'[i].buffers) = Len(db[i].buffers) + 1
              /\ db'[i].buffers[Len(db'[i].buffers)] = db[i].buffer
              /\ last'[i].op = "add"
        /\ db'[i].buffer.ptr # db[i].buffer.ptr =>
              Len(db'[i].buffers) = Len(db[i].buffers) + 1

\* C12 (retired arenas are frozen and kept): a retired arena never changes
\* and is never removed, the retired collection grows only by appending the
\* arena that was active (at most one per add), and one arena is active.
RetiredFrozen == []OneActive /\ [][RetiredKept]_vars

\* Two arenas have been retired, the second one with text in it.
RetiredFrozenWitness ==
    /\ Len(db[1].buffers) = 2
    /\ Len(db[1].buffers[2].bytes) > 0
    /\ db[1].interned[1].ptr = db[1].buffers[2].ptr
    /\ db[1].interned[2].ptr = db[1].buffer.ptr
    /\ last[1].op = "get"
    /\ last[1].ok

\* A step that is add(T) on instance i for a T that add was not called
\* with before: it retires the active arena when T's length plus the
\* arena's length reaches the arena's capacity, and the new arena then
\* holds T alone; otherwise it appends T to the active arena and leaves the
\* retired collection as it is.
RetiresWhenFull ==
    \A i \in Interners :
        (last'[i].op = "add" /\ last'[i].text \notin Range(seen[i])) =>
            LET T == last'[i].text
            IN  IF Len(db[i].buffer.bytes) + Len(T) >= db[i].buffer.cap
                THEN /\ db'[i].buffers = Append(db[i].buffers, db[i].buffer)
                     /\ db'[i].buffer.ptr # db[i].buffer.ptr
                     /\ db'[i].buffer.bytes = T
                ELSE /\ db'[i].buffers = db[i].buffers
                     /\ db'[i].buffer.ptr = db[i].buffer.ptr
                     /\ db'[i].buffer.bytes = db[i].buffer.bytes \o T

\* C13 (retirement condition): an add of a string of length L that is not
\* interned yet retires the active arena if and only if
\* active.length + L >= active.capacity, so also when the string would fit
\* exactly; otherwise the string is appended to the active arena.
RetirementCondition == [][RetiresWhenFull]_vars

\* The last add retired a non-empty arena that its text would have filled
\* exactly.
RetirementConditionWitness ==
    /\ last[1].op = "add"
    /\ Len(db[1].buffers) >= 1
    /\ LET r == db[1].buffers[Len(db[1].buffers)]
       IN  /\ Len(r.bytes) > 0
           /\ Len(r.bytes) + Len(last[1].text) = r.cap
    /\ db[1].buffer.bytes = last[1].text
    /\ Len(last[1].text) > 0

\* The next power of two that is >= c, taken from the powers themselves.
PowersOfTwo == {2 ^ k : k \in 0..10}
NextPowerAtLeast(c) ==
    CHOOSE p \in PowersOfTwo :
        p >= c /\ \A q \in PowersOfTwo : q >= c => p <= q

\* A step that retires an arena of capacity C for a string of length L
\* makes an arena whose capacity is at least the next power of two >= C,
\* at least C, and greater than L.
NewArenaSized ==
    \A i \in Interners :
        Len(db'[i].buffers) = Len(db[i].buffers) + 1 =>
            LET C == db[i].buffer.cap
                L == Len(last'[i].text)
            IN  /\ last'[i].op = "add"
                /\ db'[i].buffer.cap >= NextPowerAtLeast(C)
                /\ db'[i].buffer.cap >= C
                /\ db'[i].buffer.cap > L

\* The capacities of the arenas, in the order they were created, never
\* decrease.
CapacitiesGrow ==
    \A i \in Interners :
        /\ \A k \in DOMAIN db[i].buffers :
              k + 1 \in DOMAIN db[i].buffers =>
                  db[i].buffers[k].cap <= db[i].buffers[k + 1].cap
        /\ \A k \in DOMAIN db[i].buffers :
              db[i].buffers[k].cap <= db[i].buffer.cap

\* C14 (new arena sizing): the arena that replaces a retired arena of
\* capacity C, for a string of length L, has a capacity of at least the
\* next power of two >= C and greater than L, also for C = 0; so the
\* capacities of the active arenas never decrease.
NewArenaSizing == []CapacitiesGrow /\ [][NewArenaSized]_vars

\* An interner built with capacity 0 that retired twice: the arena of
\* capacity 0 and then one whose capacity (3) is no power of two.
NewArenaSizingWitness ==
    /\ last[1].op = "add"
    /\ Len(db[1].buffers) = 2
    /\ db[1].buffers[1].cap = 0
    /\ db[1].buffers[2].cap = 3
    /\ db[1].buffer.cap = Len(last[1].text) + 4

\* The arenas of an interner in the order they were created: the retired
\* ones, then the active one.
Arenas(self) == Append(self.buffers, self.buffer)

\* The identifier table slots whose view points into arena a of instance i.
SlotsIn(i, a) ==
    {k \in DOMAIN db[i].interned : db[i].interned[k].ptr = Arenas(db[i])[a].ptr}

\* C15 (slice validity): every identifier table entry is a range inside
\* the written part of exactly one arena, whose bytes are the text interned
\* for that identifier; the ranges of the entries of one arena follow each
\* other in issue order without gap or overlap, from 0 to the arena's
\* length.
SliceValidity ==
    \A i \in Interners :
        /\ Len(db[i].interned) = Len(seen[i])
        /\ \A k \in DOMAIN db[i].interned :
              LET r  == db[i].interned[k]
                  in == {a \in DOMAIN Arenas(db[i]) : k \in SlotsIn(i, a)}
              IN  /\ Cardinality(in) = 1
                  /\ \A a \in in :
                        /\ 0 <= r.start
                        /\ r.start <= r.end
                        /\ r.end <= Len(Arenas(db[i])[a].bytes)
                        /\ SubSeq(Arenas(db[i])[a].bytes, r.start + 1, r.end) = seen[i][k]
        /\ \A a \in DOMAIN Arenas(db[i]) :
              LET ks == SlotsIn(i, a)
              IN  /\ \A k \in ks :
                        LET before == {j \in ks : j < k}
                        IN  db[i].interned[k].start =
                              IF before = {} THEN 0
                              ELSE db[i].interned[CHOOSE j \in before :
                                       \A h \in before : h <= j].end
                  /\ Len(Arenas(db[i])[a].bytes) =
                        IF ks = {} THEN 0
                        ELSE db[i].interned[CHOOSE j \in ks : \A h \in ks : h <= j].end

\* Two non-empty texts lie one behind the other in the active arena, behind
\* a retired arena.
SliceValidityWitness ==
    /\ Len(db[1].interned) = 2
    /\ Len(db[1].buffers) >= 1
    /\ db[1].interned[1].ptr = db[1].buffer.ptr
    /\ db[1].interned[2].ptr = db[1].buffer.ptr
    /\ db[1].interned[1].end > 0
    /\ db[1].interned[2].start = db[1].interned[1].end
    /\ db[1].interned[2].end > db[1].interned[2].start
    /\ db[1].interned[2].end = Len(db[1].buffer.bytes)

\* The dedup index and the identifier table hold the same entries: as many,
\* the index maps a content to i exactly when slot i holds that content,
\* looking a content up finds its slot (and nothing for a content never
\* added), and no two slots hold the same content.
IndexMatchesTable ==
    \A i \in Interners :
        /\ Cardinality(db[i].strings) = Len(db[i].interned)
        /\ \A e \in db[i].strings :
              /\ e.val + 1 \in DOMAIN db[i].interned
              /\ Deref(db[i], e.key) = Deref(db[i], db[i].interned[e.val + 1])
        /\ \A k \in DOMAIN db[i].interned :
              /\ \E e \in db[i].strings :
                    /\ e.val = k - 1
                    /\ Deref(db[i], e.key) = Deref(db[i], db[i].interned[k])
              /\ \A t \in Deref(db[i], db[i].interned[k]) :
                    HashMapGet(db[i], t) = {[found |-> TRUE, val |-> k - 1]}
        /\ \A t \in Texts \ Range(seen[i]) :
              HashMapGet(db[i], t) = {[found |-> FALSE, val |-> 0]}
        /\ \A k, l \in DOMAIN db[i].interned :
              k # l => Deref(db[i], db[i].interned[k]) # Deref(db[i], db[i].interned[l])

\* A step removes no entry of the dedup index and no slot of the
\* identifier table.
NothingLost ==
    \A i \in Interners :
        /\ db[i].strings \subseteq db'[i].strings
        /\ Len(db'[i].interned) >= Len(db[i].interned)
        /\ SubSeq(db'[i].interned, 1, Len(db[i].interned)) = db[i].interned

\* C16 (index/table consistency): the dedup index and the identifier table
\* have the same number of entries, the index maps content c to identifier
\* i exactly when table slot i holds c, no two slots hold equal content,
\* and neither structure ever loses an entry.
IndexTableConsistency == []IndexMatchesTable /\ [][NothingLost]_vars

\* The index and the table hold MaxStrings entries, the first text lies in
\* a retired arena, and the last call was add of the second text.
IndexTableConsistencyWitness ==
    /\ Cardinality(db[1].strings) = MaxStrings
    /\ Len(db[1].interned) = MaxStrings
    /\ db[1].interned[1].ptr # db[1].buffer.ptr
    /\ db[1].interned[1].end > db[1].interned[1].start
    /\ last[1].op = "add"
    /\ last[1].text = seen[1][2]
    /\ last[1].rid = 1

====
